---- MODULE Spec2Model ----
(***************************************************************************)
(* Model of parcel.py: the adiabatic parcel driver around the libcloudph++ *)
(* Lagrangian microphysics.  One run of parcel() is a sequential process;  *)
(* pc is its position in the function body.                                *)
(*                                                                         *)
(* Units.  Reals are scaled to integers:                                   *)
(*   pressure      1e-4 Pa      (p_0 = 101300 Pa  -> 1013000000)           *)
(*   density       1e-2 kg/m3   (rho = 1.13       -> 113)                  *)
(*   g             1e-2 m/s2                                               *)
(*   temperature   K, compared with 273.15 as T*100 < 27315                *)
(*   r_v, r_0      g/kg         (.022 -> 22);  negative = "unset"          *)
(*   gstdev        1e-1         (1.4 -> 14, 1.0 -> 10)                     *)
(*   kappa         1e-2         (0.61 -> 61)                               *)
(*   mean_r        nm, n_tot 1e6 m-3, z m, dt s, w m/s                     *)
(* The libcloudph++ functions (module common) and the engine are outside   *)
(* the repository:                                                         *)
(* the thermodynamic functions are integer stand-ins that keep             *)
(* the dependence on their arguments, the relative humidity the library    *)
(* computes and the engine's condensation are nondeterministic.            *)
(***************************************************************************)
EXTENDS Integers, Sequences, FiniteSets, TLC

VARIABLES opts,      \* the packed function arguments (parcel.py:330-333)
          aerosol,   \* json.loads(opts["aerosol"]): sequence of <<name, dct>>
          spectra,   \* json.loads(opts["out_bin"]): sequence of <<name, dct>>
          pc,        \* position in parcel()
          err,       \* the exception that ended the run, "" if none
          nt,        \* number of ascent ticks (parcel.py:353)
          it,        \* loop index of the timestepping loops
          state,     \* the state dictionary
          info,      \* the info dictionary
          micro,     \* the engine handle: created, opts_init
          fout,      \* the output archive: status, records written, attributes
          steps,     \* history: the tick indices handed to _micro_step, in order
          RH_seen,   \* history: the RH values _stats has computed
          calls      \* history: the calls of the stage just executed, in order

vars == <<opts, aerosol, spectra, pc, err, nt, it, state, info, micro, fout,
          steps, RH_seen, calls>>

-----------------------------------------------------------------------------
(* Bounds of the model *)

MaxZ == 3          \* z_max ranges over 0..MaxZ
MaxW == 2          \* w ranges over -1..MaxW
MaxOutfreq == 2    \* outfreq ranges over 0..MaxOutfreq
MaxWait == 3       \* wait ranges over 0..MaxWait
MaxRH == 2         \* the relative humidity ranges over 0..MaxRH
MaxCond == 1       \* units of vapour the engine may condense in one run
MaxModes == 2      \* longest mean_r / gstdev / n_tot list

(* Program constants *)

rho == 113         \* rho = 1.13 kg/m3
P0 == 1013000000   \* p_0 = 101300. Pa
R0Default == 22    \* r_0 = .022

Max(a, b) == IF a >= b THEN a ELSE b

-----------------------------------------------------------------------------
(* libcloudph++ module common: integer stand-ins *)

common_g == 981

common_rhod(p, th_std, r_v) ==
  (p \div 100000) - 10000 - 4 * (th_std - 300) - r_v

common_th_std2dry(th_std, r_v) == th_std + r_v

common_th_dry2std(th_d, r_v) == th_d - r_v

common_T(th_d, rhod) == th_d + rhod - 130

common_p(rhod, r_v, T) == (rhod + 10000 + r_v + 4 * (T - 298)) * 100000

common_p_hydro(z, th_std, r_v, z_0, p_0) ==
  p_0 - common_rhod(p_0, th_std, r_v) * common_g * (z - z_0)

-----------------------------------------------------------------------------
(* The chemistry label tables *)

Chem_g_id == {"SO2_g", "H2O2_g", "O3_g", "HNO3_g", "NH3_g", "CO2_g"}

Chem_a_id == {"SO2_a", "H2O2_a", "O3_a", "CO2_a", "HNO3_a", "NH3_a", "H", "S_VI"}

(* A moment of an output spectrum is an int or a string; the ints are the *)
(* decimal numerals below.                                                  *)
IntMoms == {"0", "1", "2", "3"}

IsInt(mom) == mom \in IntMoms

-----------------------------------------------------------------------------
(* class lognormal, class sum_of_lognormals *)

lognormal(mean_r, gstdev, n_tot) ==
  [mean_r |-> mean_r, gstdev |-> gstdev, n_tot |-> n_tot]

\* the components summed by __call__, in order
sum_of_lognormals(lognormals) == lognormals

\* how many times component c is added by sum_of_lognormals.__call__
Count(lognormals, c) ==
  Cardinality({i \in DOMAIN lognormals : lognormals[i] = c})

-----------------------------------------------------------------------------
(* _arguments_checking.  The result is "ok" or the first exception raised. *)
(* A JSON value whose Python type is tested is a record: the flag tells    *)
(* whether it has the tested type, v is its content.                       *)

AerosolKeys == <<"kappa", "mean_r", "n_tot", "gstdev">>

SpectrumKeys == <<"left", "rght", "nbin", "drwt", "lnli", "moms">>

Range(f) == {f[i] : i \in DOMAIN f}

\* the first element of a sequence of check results that is not "ok"
FirstError(results) ==
  IF \E i \in DOMAIN results : results[i] # "ok"
  THEN results[CHOOSE i \in DOMAIN results :
                 /\ results[i] # "ok"
                 /\ \A j \in 1..(i - 1) : results[j] = "ok"]
  ELSE "ok"

\* fault: the == 1 test dedented out of the loop, so it sees the last gstdev only
gstdev_check_last(gstdev) ==
  FirstError([i \in DOMAIN gstdev |->
                IF gstdev[i] <= 0 THEN "gstdev should be > 0"
                ELSE IF i = Len(gstdev) /\ gstdev[i] = 10 THEN "gstdev should be != 1"
                ELSE "ok"])

\* for gstdev in dct["gstdev"]: (parcel.py:483-488)
gstdev_check(gstdev) ==
  FirstError([i \in DOMAIN gstdev |->
                IF gstdev[i] <= 0 THEN "gstdev should be > 0"
                ELSE IF gstdev[i] = 10 THEN "gstdev should be != 1"
                ELSE "ok"])

\* the body of: for name, dct in aerosol.items()
aerosol_check(dct) ==
  IF \E i \in DOMAIN AerosolKeys : AerosolKeys[i] \notin dct.keys
    THEN "aerosol key missing"
  ELSE IF \E k \in dct.keys : k \notin Range(AerosolKeys)
    THEN "aerosol invalid key"
  ELSE IF dct.kappa <= 0 THEN "kappa should be > 0"
  ELSE IF ~dct.mean_r.list THEN "mean_r must be a list"
  ELSE IF ~dct.gstdev.list THEN "gstdev must be a list"
  ELSE IF ~dct.n_tot.list THEN "n_tot must be a list"
  ELSE IF ~(/\ Len(dct.mean_r.v) = Len(dct.n_tot.v)
            /\ Len(dct.n_tot.v) = Len(dct.gstdev.v))
    THEN "lists should have same sizes"
  ELSE IF \E i \in DOMAIN dct.mean_r.v : dct.mean_r.v[i] <= 0
    THEN "mean_r should be > 0"
  ELSE IF \E i \in DOMAIN dct.n_tot.v : dct.n_tot.v[i] <= 0
    THEN "n_tot should be > 0"
  ELSE gstdev_check(dct.gstdev.v)

\* if dct["left"] >= dct["rght"]: (parcel.py:504-505)
left_rght_check(dct) ==
  IF dct.left.v >= dct.rght.v THEN "left is greater than rght" ELSE "ok"

\* the body of: for name, dct in spectra.items()
spectrum_check(dct) ==
  IF \E i \in DOMAIN SpectrumKeys : SpectrumKeys[i] \notin dct.keys
    THEN "out_bin key missing"
  ELSE IF \E k \in dct.keys : k \notin Range(SpectrumKeys)
    THEN "out_bin invalid key"
  ELSE IF ~dct.left.num THEN "left must be int or float"
  ELSE IF ~dct.rght.num THEN "rght must be int or float"
  ELSE IF left_rght_check(dct) # "ok" THEN left_rght_check(dct)
  ELSE IF dct.drwt \notin {"dry", "wet"} THEN "drwt must be dry or wet"
  ELSE IF dct.lnli \notin {"lin", "log"} THEN "lnli must be lin or log"
  ELSE IF ~dct.nbin.int THEN "nbin must be an integer"
  ELSE IF ~dct.moms.list THEN "moms must be a list"
  ELSE IF \E i \in DOMAIN dct.moms.v :
            ~IsInt(dct.moms.v[i]) /\ dct.moms.v[i] \notin Chem_a_id
    THEN "moms must be integers or chemical compounds"
  ELSE "ok"

\* if opts["T_0"] < 273.15: ... elif r_0 >= 0 and RH_0 >= 0: (parcel.py:450-453)
T_0_r_0_check(o) ==
  IF o.T_0 * 100 < 27315 THEN "temperature should be larger than 0C"
  ELSE IF o.r_0 >= 0 /\ o.RH_0 >= 0 THEN "both r_0 and RH_0 specified"
  ELSE "ok"

\* fault: the checks of the scalar options made after those of the aerosol
\* and of the spectra
arguments_checking_run_last(o, spec, aero) ==
  FirstError(
    <<FirstError([i \in DOMAIN aero |-> aerosol_check(aero[i][2])]),
      FirstError([i \in DOMAIN spec |-> spectrum_check(spec[i][2])]),
      T_0_r_0_check(o),
      IF o.w < 0 THEN "vertical velocity should be larger than 0" ELSE "ok">>)

\* _arguments_checking(opts, spectra, aerosol)
arguments_checking(o, spec, aero) ==
  FirstError(
    <<T_0_r_0_check(o),
      IF o.w < 0 THEN "vertical velocity should be larger than 0" ELSE "ok",
      FirstError([i \in DOMAIN aero |-> aerosol_check(aero[i][2])]),
      FirstError([i \in DOMAIN spec |-> spectrum_check(spec[i][2])])>>)

-----------------------------------------------------------------------------
(* The configurations the runs are started with *)

None == -1    \* "T" : None, "RH" : None; also every field before parcel() builds state

Unset == -1   \* r_0=-1., RH_0=-1.: a negative value means "not given"

PprofNames == {"pprof_const_th_rv", "pprof_const_rhod", "pprof_piecewise_const_rhod"}

List(v) == [list |-> TRUE, v |-> v]

NotList(v) == [list |-> FALSE, v |-> v]

Num(v) == [num |-> TRUE, v |-> v]

DefaultAerosolDct ==
  [keys |-> Range(AerosolKeys), kappa |-> 61,
   mean_r |-> List(<<20>>), gstdev |-> List(<<14>>), n_tot |-> List(<<60>>)]

DefaultAerosol == << <<"ammonium_sulfate", DefaultAerosolDct>> >>

DefaultSpectrumDct ==
  [keys |-> Range(SpectrumKeys), left |-> Num(1), rght |-> Num(9),
   nbin |-> [int |-> TRUE, v |-> 1], drwt |-> "wet", lnli |-> "log",
   moms |-> List(<<"0">>)]

DefaultSpectra == << <<"radii", DefaultSpectrumDct>> >>

DefaultOpts ==
  [dt |-> 1, z_max |-> 2, w |-> 1, T_0 |-> 300, p_0 |-> P0, r_0 |-> Unset,
   RH_0 |-> Unset, pprof |-> "pprof_piecewise_const_rhod", outfreq |-> 1,
   wait |-> 0, chem_dsl |-> FALSE, chem_dsc |-> FALSE, chem_rct |-> FALSE]

\* the run options of the time loop, everything else at its default (the
\* chemistry switches vary in BinOpts)
RunOpts ==
  {[DefaultOpts EXCEPT !.z_max = z, !.w = w, !.outfreq = f, !.wait = wt,
                       !.pprof = pp] :
     z \in 0..MaxZ, w \in 0..MaxW, f \in 0..MaxOutfreq, wt \in 0..MaxWait,
     pp \in PprofNames \cup {"pprof_other"}}

-----------------------------------------------------------------------------
(* State before parcel() has built anything *)

NoState ==
  [t |-> None, z |-> None, r_v |-> None, p |-> None, th_d |-> None,
   rhod |-> None, T |-> None, RH |-> None]

NoMicro ==
  [created |-> FALSE, inited |-> FALSE, chem_switch |-> FALSE,
   dry_distros |-> [k \in {} |-> <<>>],
   sel |-> [kind |-> "none", drwt |-> "", lo |-> 0, hi |-> 0]]

NoFout ==
  [status |-> "none", recs |-> <<>>,
   attrs |-> [saved |-> FALSE, RH_max |-> None],
   variables |-> <<>>]

Start(o, aero, spec) ==
  /\ opts = o
  /\ aerosol = aero
  /\ spectra = spec
  /\ pc = "validate"
  /\ err = ""
  /\ nt = 0
  /\ it = 0
  /\ state = NoState
  /\ info = [RH_max |-> 0]
  /\ micro = NoMicro
  /\ fout = NoFout
  /\ steps = <<>>
  /\ RH_seen = {}
  /\ calls = <<>>

Init == \E o \in RunOpts : Start(o, DefaultAerosol, DefaultSpectra)

-----------------------------------------------------------------------------
(* Locals of parcel() that are functions of the arguments *)

\* saturation mixing ratio common.eps * p_vs(T_0) / (p_0 - p_vs(T_0)): stand-in
common_r_vs(T_0, p_0) == 22 + (T_0 - 300)

\* the local r_0 after the defaulting of parcel.py:341-347
r_0(o) ==
  IF o.r_0 < 0 /\ o.RH_0 < 0 THEN R0Default
  ELSE IF o.r_0 < 0 /\ o.RH_0 >= 0 THEN o.RH_0 * common_r_vs(o.T_0, o.p_0)
  ELSE o.r_0

\* th_0 = T_0 * (common.p_1000 / p_0)**(common.R_d / common.c_pd): stand-in
th_0(o) == o.T_0 - 1

\* nt = int(z_max / (w * dt)), for w * dt # 0
n_ascent(o) == o.z_max \div (o.w * o.dt)

chem_on(o) == o.chem_dsl \/ o.chem_dsc \/ o.chem_rct

-----------------------------------------------------------------------------
(* _micro_init: the dry distributions handed to the engine *)

lognormals_of(dct) ==
  [i \in 1..Len(dct.mean_r.v) |->
     lognormal(dct.mean_r.v[i], dct.gstdev.v[i], dct.n_tot.v[i])]

RECURSIVE dry_distros_loop(_, _, _)
\* for name, dct in aerosol.items(): dry_distros[dct["kappa"]] = ...
dry_distros_loop(aero, i, acc) ==
  IF i > Len(aero) THEN acc
  ELSE dry_distros_loop(aero, i + 1,
         (aero[i][2].kappa :> sum_of_lognormals(lognormals_of(aero[i][2]))) @@ acc)

dry_distros(aero) == dry_distros_loop(aero, 1, [k \in {} |-> <<>>])

-----------------------------------------------------------------------------
(* _stats, the engine step, _micro_step *)

\* fault: RH_max overwritten by the current RH
stats_last(st, inf, rh) ==
  [state |-> [st EXCEPT !.T = common_T(st.th_d, st.rhod), !.RH = rh],
   info  |-> [inf EXCEPT !.RH_max = rh]]

\* rh is the value of p * r_v / (r_v + eps) / p_vs(T) the library arithmetic gives
stats(st, inf, rh) ==
  [state |-> [st EXCEPT !.T = common_T(st.th_d, st.rhod), !.RH = rh],
   info  |-> [inf EXCEPT !.RH_max = Max(inf.RH_max, rh)]]

\* micro.step_sync + micro.step_async: c units of vapour condense, in place
engine_step(st, c) == [st EXCEPT !.th_d = @ + c, !.r_v = @ - c]

micro_step(st, inf, c, rh) == stats(engine_step(st, c), inf, rh)

\* what the engine may condense in the next step
CondChoices(o, st) ==
  {c \in 0..1 : st.r_v - c >= 0 /\ (r_0(o) - st.r_v) + c <= MaxCond}

RHValues == 0..MaxRH

-----------------------------------------------------------------------------
(* The pressure profiles *)

p_hydro_const_rho(dz, p, rho_) == p - rho_ * common_g * dz

p_hydro_const_th_rv(z_lev, p_0, th_std, r_v) ==
  common_p_hydro(z_lev, th_std, r_v, 0, p_0)

\* fault: the evolving dry air density used in place of the fixed rho
p_const_rhod_evolving(st, o) == p_hydro_const_rho(st.z, o.p_0, st.rhod)

\* pprof == "pprof_const_rhod": state["p"] (parcel.py:397-400)
p_const_rhod(st, o) == p_hydro_const_rho(st.z, o.p_0, rho)

\* fault: the fixed rho used in place of the density of the previous tick
p_piecewise_fixed_rho(st, o) == p_hydro_const_rho(o.w * o.dt, st.p, rho)

\* pprof == "pprof_piecewise_const_rhod": state["p"] (parcel.py:402-405)
p_piecewise_const_rhod(st, o) == p_hydro_const_rho(o.w * o.dt, st.p, st.rhod)

\* else-branch of the density update (parcel.py:418-423)
rhod_from_p(st) ==
  [st EXCEPT !.rhod = common_rhod(st.p, common_th_dry2std(st.th_d, st.r_v), st.r_v)]

\* pressure and dry air density of one ascent tick, for a known pprof
pprof_update(st, o) ==
  IF o.pprof = "pprof_const_th_rv"
  THEN LET p_hydro == p_hydro_const_th_rv(st.z, o.p_0, th_0(o), r_0(o))
           rhod    == common_rhod(p_hydro, th_0(o), r_0(o))
       IN  [st EXCEPT !.rhod = rhod,
                      !.p = common_p(rhod, st.r_v, common_T(st.th_d, rhod))]
  ELSE IF o.pprof = "pprof_const_rhod"
  THEN rhod_from_p([st EXCEPT !.p = p_const_rhod(st, o)])
  ELSE rhod_from_p([st EXCEPT !.p = p_piecewise_const_rhod(st, o)])

-----------------------------------------------------------------------------
(* The output archive *)

\* _output(fout, opts, micro, state, rec, spectra)
output(f, rec) == [f EXCEPT !.recs = Append(@, rec)]

\* _save_attrs(fout, info); _save_attrs(fout, opts)
save_attrs(f, inf) == [f EXCEPT !.attrs = [saved |-> TRUE, RH_max |-> inf.RH_max]]

\* leaving the with-block, normally or by an exception
close(f) == [f EXCEPT !.status = "closed"]

\* fault: the record index is the tick index
output_at_tick(f, i, o) ==
  IF i % o.outfreq = 0 THEN output(f, i) ELSE f

\* if (it % outfreq == 0): rec = it/outfreq; _output(...)
output_at(f, i, o) ==
  IF i % o.outfreq = 0 THEN output(f, i \div o.outfreq) ELSE f

-----------------------------------------------------------------------------
(* The engine's diagnostic selection and the log of the calls of a stage.  *)
(* sel is the selection the engine holds: none yet, all particles          *)
(* (diag_all) or a radius range (diag_wet_rng, diag_dry_rng).  An event is *)
(* one call, with the selection in force when it returns.                   *)

NoSel == [kind |-> "none", drwt |-> "", lo |-> 0, hi |-> 0]

AllSel == [kind |-> "all", drwt |-> "", lo |-> 0, hi |-> 0]

RngSel(drwt, lo, hi) == [kind |-> "rng", drwt |-> drwt, lo |-> lo, hi |-> hi]

Event(op, sel, arg) == [op |-> op, sel |-> sel, arg |-> arg]

\* _Chem_g_id.items(), in the order of the dictionary
Chem_g_order == <<"SO2_g", "H2O2_g", "O3_g", "HNO3_g", "NH3_g", "CO2_g">>

\* id_str.replace('_g', '_a')
replace_g_a(id_str) ==
  CASE id_str = "SO2_g"  -> "SO2_a"
    [] id_str = "H2O2_g" -> "H2O2_a"
    [] id_str = "O3_g"   -> "O3_a"
    [] id_str = "HNO3_g" -> "HNO3_a"
    [] id_str = "NH3_g"  -> "NH3_a"
    [] id_str = "CO2_g"  -> "CO2_a"

\* the thermodynamic fields handed to micro.step_sync
sync_args(st) == [p |-> st.p, rhod |-> st.rhod, th_d |-> st.th_d, r_v |-> st.r_v]

RECURSIVE Flatten(_)
Flatten(seqs) == IF seqs = <<>> THEN <<>> ELSE Head(seqs) \o Flatten(Tail(seqs))

\* fault: the aqueous masses read without micro.diag_all()
harvest_unselected(sel) ==
  [sel |-> sel,
   calls |-> Flatten([i \in DOMAIN Chem_g_order |->
               <<Event("diag_chem", sel, Chem_g_order[i]),
                 Event("store", sel, replace_g_a(Chem_g_order[i]))>>])]

\* parcel.py:136-141: micro.diag_all(), then diag_chem and the store per species
harvest(sel) ==
  [sel |-> AllSel,
   calls |-> <<Event("diag_all", AllSel, "")>> \o
             Flatten([i \in DOMAIN Chem_g_order |->
               <<Event("diag_chem", AllSel, Chem_g_order[i]),
                 Event("store", AllSel, replace_g_a(Chem_g_order[i]))>>])]

\* parcel.py:373-379: the aqueous fields at t=0; only NH3_a is read from the engine
harvest_init(sel) ==
  [sel |-> AllSel,
   calls |-> <<Event("diag_all", AllSel, ""),
               Event("diag_chem", AllSel, "NH3_a"),
               Event("store", AllSel, "NH3_a")>>]

\* np.frombuffer(micro.outbuf())[0] after diag_chem: the engine of the model
\* holds no dissolved mass
outbuf == 0

\* the names of the aqueous fields of the state
Chem_aq_names == {replace_g_a(Chem_g_order[i]) : i \in DOMAIN Chem_g_order}

\* for key in _Chem_g_id.keys(): state.update({key: opts[key]}) (parcel.py:362-364);
\* the gas mixing ratios are at their default, 0.
gas_fields(st, o) ==
  IF o.chem_dsl \/ o.chem_dsc \/ o.chem_rct
  THEN [k \in Chem_g_id |-> 0] @@ st
  ELSE st

\* the aqueous fields at t=0 (parcel.py:373-379): five set to 0., NH3_a read
aq_fields_init(st, chem_switch) ==
  IF chem_switch
  THEN ("NH3_a" :> outbuf)
         @@ [k \in {"SO2_a", "O3_a", "H2O2_a", "CO2_a", "HNO3_a"} |-> 0] @@ st
  ELSE st

\* state[id_str.replace('_g', '_a')] = ... for each species (parcel.py:136-141)
harvest_state(st, chem_switch) ==
  IF chem_switch
  THEN [k \in Chem_aq_names |-> outbuf] @@ st
  ELSE st

\* the calls of _micro_step, for the state st handed to it
micro_step_calls(st, sel, chem) ==
  LET h == IF chem THEN harvest(sel) ELSE [sel |-> sel, calls |-> <<>>]
  IN  [sel |-> h.sel,
       calls |-> <<Event("step_sync", sel, sync_args(st)),
                   Event("step_async", sel, ""),
                   Event("stats", sel, "")>> \o h.calls]

-----------------------------------------------------------------------------
(* _output_init: the variables of the archive.  A variable is its          *)
(* dimensions and its data, a function from index tuples (0-based) to      *)
(* values; a value is a number or the diagnostic it was read from.         *)
(* math.log / np.exp are the base-3 logarithm and power, exact on the      *)
(* powers of 3 the radii are taken from.                                    *)

Exp3(n) == 3 ^ n

Log3(x) == CHOOSE n \in 0..8 : Exp3(n) = x

Val(n) == [num |-> n, sel |-> NoSel, q |-> ""]

Diag(sel, q) == [num |-> 0, sel |-> sel, q |-> q]

NoData == [i \in {} |-> Val(0)]

Variable(dims, data) == [dims |-> dims, data |-> data]

\* fault: the edges of a log spectrum evenly spaced in the radius
allbins_evenly(dct) ==
  [i \in 0..dct.nbin.v |->
     dct.left.v + i * ((dct.rght.v - dct.left.v) \div dct.nbin.v)]

\* allbins = np.exp(log(left) + np.arange(nbin+1) * dlnr), index 0..nbin
allbins(dct) ==
  LET dlnr == (Log3(dct.rght.v) - Log3(dct.left.v)) \div dct.nbin.v
  IN  [i \in 0..dct.nbin.v |-> Exp3(Log3(dct.left.v) + i * dlnr)]

\* the data of name_r_drwt (parcel.py:198, 202)
edges_r(dct) ==
  IF dct.lnli = "log"
  THEN [ix \in {<<b>> : b \in 0..(dct.nbin.v - 1)} |-> Val(allbins(dct)[ix[1]])]
  ELSE LET dr == (dct.rght.v - dct.left.v) \div dct.nbin.v
       IN  [ix \in {<<b>> : b \in 0..(dct.nbin.v - 1)} |-> Val(dct.left.v + ix[1] * dr)]

\* the data of name_dr_drwt (parcel.py:199, 203)
edges_dr(dct) ==
  IF dct.lnli = "log"
  THEN [ix \in {<<b>> : b \in 0..(dct.nbin.v - 1)} |->
          Val(allbins(dct)[ix[1] + 1] - allbins(dct)[ix[1]])]
  ELSE LET dr == (dct.rght.v - dct.left.v) \div dct.nbin.v
       IN  [ix \in {<<b>> : b \in 0..(dct.nbin.v - 1)} |-> Val(dr)]

r_name(name, dct) == name \o "_r_" \o dct.drwt

dr_name(name, dct) == name \o "_dr_" \o dct.drwt

\* fault: the name of the spectrum left out of the name of the series
mom_name_shared(name, vm) ==
  IF IsInt(vm) THEN "m" \o vm ELSE vm

\* name+'_'+vm for a chemical compound, name+'_m'+str(vm) for an int
mom_name(name, vm) ==
  IF IsInt(vm) THEN name \o "_m" \o vm ELSE name \o "_" \o vm

\* fout.createVariable: a variable of that name is replaced
createVariable(variables, name, v) == (name :> v) @@ variables

\* for vm in dct["moms"]: createVariable (parcel.py:206-213)
mom_variables(name, dct) ==
  [i \in DOMAIN dct.moms.v |->
     <<mom_name(name, dct.moms.v[i]), Variable(<<"t", name>>, NoData)>>]

RECURSIVE create_all(_, _)
\* createVariable for a sequence of <<name, variable>>, in order
create_all(variables, nvs) ==
  IF nvs = <<>> THEN variables
  ELSE create_all(createVariable(variables, Head(nvs)[1], Head(nvs)[2]), Tail(nvs))

\* the variables of one spectrum (parcel.py:181-213)
spectrum_variables(name, dct) ==
  << <<r_name(name, dct), Variable(<<name>>, edges_r(dct))>>,
     <<dr_name(name, dct), Variable(<<name>>, edges_dr(dct))>> >>
    \o mom_variables(name, dct)

\* fault: the aqueous series left out of the archive
units_gas_only(chem) ==
  <<"z", "t", "r_v", "th_d", "rhod", "p", "T", "RH">> \o
  (IF chem THEN Chem_g_order ELSE <<>>)

\* the keys of units (parcel.py:215-222)
units(chem) ==
  <<"z", "t", "r_v", "th_d", "rhod", "p", "T", "RH">> \o
  (IF chem
   THEN Flatten([i \in DOMAIN Chem_g_order |->
                   <<Chem_g_order[i], replace_g_a(Chem_g_order[i])>>])
   ELSE <<>>)

\* fout.variables when _output_init returns
output_init(spec, chem) ==
  create_all([n \in {} |-> Variable(<<>>, NoData)],
             Flatten([i \in DOMAIN spec |-> spectrum_variables(spec[i][1], spec[i][2])])
               \o [i \in DOMAIN units(chem) |->
                     <<units(chem)[i], Variable(<<"t">>, NoData)>>])

\* a spectrum with nbin = 0 divides by zero at parcel.py:196 or 201
nbin_zero(spec) == \E i \in DOMAIN spec : spec[i][2].nbin.v = 0

\* fault: every bin reads the range of bin 0
bin_range_first(f, name, dct, b) ==
  LET lo == f.variables[r_name(name, dct)].data[<<0>>].num
  IN  RngSel(dct.drwt, lo, lo + f.variables[dr_name(name, dct)].data[<<0>>].num)

\* the arguments of micro.diag_wet_rng / diag_dry_rng (parcel.py:152-163)
bin_range(f, name, dct, b) ==
  LET lo == f.variables[r_name(name, dct)].data[<<b>>].num
  IN  RngSel(dct.drwt, lo, lo + f.variables[dr_name(name, dct)].data[<<b>>].num)

\* fout.variables[var][int(t), int(bin)] = value
write(f, var, rec, bin, value) ==
  [f EXCEPT !.variables[var] =
     Variable(@.dims, (<<rec, bin>> :> value) @@ @.data)]

RECURSIVE moms_loop(_, _, _, _, _, _)
\* for vm in dct["moms"] (parcel.py:165-175), from the j-th moment on
moms_loop(acc, name, dct, rec, bin, j) ==
  IF j > Len(dct.moms.v) THEN acc
  ELSE LET vm  == dct.moms.v[j]
           op  == IF IsInt(vm)
                  THEN (IF dct.drwt = "wet" THEN "diag_wet_mom" ELSE "diag_dry_mom")
                  ELSE "diag_chem"
           var == mom_name(name, vm)
       IN  moms_loop(
             [f     |-> write(acc.f, var, rec, bin,
                              Diag(acc.sel, [op |-> op, arg |-> vm])),
              sel   |-> acc.sel,
              calls |-> acc.calls \o
                        <<Event(op, acc.sel, vm),
                          Event("write", acc.sel,
                                [var |-> var, rec |-> rec, bin |-> bin])>>],
             name, dct, rec, bin, j + 1)

RECURSIVE bins_loop(_, _, _, _, _)
\* for bin in range(dct["nbin"]) (parcel.py:151-175), from bin b on
bins_loop(acc, name, dct, rec, b) ==
  IF b >= dct.nbin.v THEN acc
  ELSE LET sel == bin_range(acc.f, name, dct, b)
           op  == IF dct.drwt = "wet" THEN "diag_wet_rng" ELSE "diag_dry_rng"
       IN  bins_loop(
             moms_loop([f |-> acc.f, sel |-> sel,
                        calls |-> Append(acc.calls,
                                    Event(op, sel, [name |-> name, bin |-> b]))],
                       name, dct, rec, b, 1),
             name, dct, rec, b + 1)

RECURSIVE spectra_loop(_, _, _, _)
\* for dim, dct in spectra.iteritems() (parcel.py:150), from the i-th on
spectra_loop(acc, spec, rec, i) ==
  IF i > Len(spec) THEN acc
  ELSE spectra_loop(bins_loop(acc, spec[i][1], spec[i][2], rec, 0), spec, rec, i + 1)

\* _output_bins(fout, t, micro, opts, spectra): the archive, the engine's
\* selection and the calls made
output_bins(f, sel, rec, spec) ==
  spectra_loop([f |-> f, sel |-> sel, calls |-> <<>>], spec, rec, 1)

\* the value of the field var of the state, as held by the archive: like the
\* diagnostics, it is kept as where it was read from
Field(var) == [num |-> 0, sel |-> NoSel, q |-> [op |-> "state", arg |-> var]]

\* _output_save(fout, state, rec): fout.variables[var][int(rec)] = val for
\* every item of the state; a key without variable is a KeyError
output_save(f, st, rec) ==
  [f  |-> [f EXCEPT !.variables =
             [n \in DOMAIN f.variables |->
                IF n \in DOMAIN st
                THEN Variable(f.variables[n].dims,
                              (<<rec>> :> Field(n)) @@ f.variables[n].data)
                ELSE f.variables[n]]],
   ok |-> DOMAIN st \subseteq DOMAIN f.variables]

\* _output at record rec: _output_bins, then _output_save
output_rec(f, sel, rec, spec, st) ==
  LET ob == output_bins(f, sel, rec, spec)
      sv == output_save(ob.f, st, rec)
  IN  [f |-> sv.f, sel |-> ob.sel, ok |-> sv.ok,
       calls |-> Append(ob.calls,
                   Event("output_save", ob.sel, [rec |-> rec, keys |-> DOMAIN st]))]

\* the output of tick i (parcel.py:432-435, 445-447)
output_tick(f, sel, i, o, spec, st) ==
  IF i % o.outfreq = 0
  THEN LET r == output_rec(f, sel, i \div o.outfreq, spec, st)
       IN  [f |-> output_at(r.f, i, o), sel |-> r.sel, ok |-> r.ok,
            calls |-> r.calls]
  ELSE [f |-> output_at(f, i, o), sel |-> sel, ok |-> TRUE, calls |-> <<>>]

-----------------------------------------------------------------------------
(* parcel(), one action per stage of its body *)

\* fault: the sanity check of _micro_init left out
supersaturated_never(st) == FALSE

\* if (state["RH"] > 1): raise ... (parcel.py:105)
supersaturated(st) == st.RH > 1

\* an exception leaves parcel(); inside the with-block the archive is closed
Raise(e, f) ==
  /\ pc' = "error"
  /\ err' = e
  /\ fout' = IF f.status = "open" THEN close(f) ELSE f

\* fault: the result of the argument check ignored
Validate_unchecked ==
  /\ pc = "validate"
  /\ pc' = "init"
  /\ calls' = <<>>
  /\ UNCHANGED <<opts, aerosol, spectra, err, nt, it, state, info, micro, fout,
                 steps, RH_seen>>

\* parcel.py:329-350: pack the arguments, parse the JSON, check the arguments
Validate ==
  /\ pc = "validate"
  /\ LET res == arguments_checking(opts, spectra, aerosol)
     IN  IF res # "ok"
         THEN Raise(res, fout)
         ELSE /\ pc' = "init"
              /\ UNCHANGED <<err, fout>>
  /\ calls' = <<>>
  /\ UNCHANGED <<opts, aerosol, spectra, nt, it, state, info, micro, steps, RH_seen>>

\* parcel.py:352-369: nt, state, info, _micro_init
Initialize ==
  /\ pc = "init"
  /\ IF opts.w * opts.dt = 0
     THEN /\ Raise("ZeroDivisionError", fout)
          /\ UNCHANGED <<nt, it, state, info, micro, RH_seen>>
     ELSE \E rh \in RHValues :
            LET st0 == [t |-> 0, z |-> 0, r_v |-> r_0(opts), p |-> opts.p_0,
                        th_d |-> common_th_std2dry(th_0(opts), r_0(opts)),
                        rhod |-> common_rhod(opts.p_0, th_0(opts), r_0(opts)),
                        T |-> None, RH |-> None]
                res == stats(gas_fields(st0, opts), [RH_max |-> 0], rh)
            IN  /\ nt' = n_ascent(opts)
                /\ micro' = [created |-> TRUE, inited |-> TRUE,
                             chem_switch |-> chem_on(opts),
                             dry_distros |-> dry_distros(aerosol),
                             sel |-> NoSel]
                /\ state' = res.state
                /\ info' = res.info
                /\ RH_seen' = RH_seen \cup {rh}
                /\ IF supersaturated(res.state)
                   THEN Raise("Please supply initial T,p,r_v below supersaturation", fout)
                   ELSE /\ pc' = "output_init"
                        /\ UNCHANGED <<err, fout>>
                /\ UNCHANGED it
  /\ calls' = <<>>
  /\ UNCHANGED <<opts, aerosol, spectra, steps>>

\* parcel.py:371-382: _output_init, the aqueous fields, record 0.  A division
\* by zero in _output_init happens before the with-block is entered: the file
\* is created and not closed by it.
OutputInit ==
  /\ pc = "output_init"
  /\ IF nbin_zero(spectra)
     THEN /\ pc' = "error"
          /\ err' = "ZeroDivisionError"
          /\ fout' = [fout EXCEPT !.status = "created"]
          /\ calls' = <<>>
          /\ UNCHANGED <<it, micro, state>>
     ELSE LET f1 == [fout EXCEPT !.status = "open",
                                 !.variables = output_init(spectra, micro.chem_switch)]
              h  == IF micro.chem_switch THEN harvest_init(micro.sel)
                    ELSE [sel |-> micro.sel, calls |-> <<>>]
              st == aq_fields_init(state, micro.chem_switch)
              r  == output_rec(f1, h.sel, 0, spectra, st)
          IN  /\ state' = st
              /\ micro' = [micro EXCEPT !.sel = r.sel]
              /\ calls' = h.calls \o r.calls
              /\ IF r.ok
                 THEN /\ fout' = output(r.f, 0)
                      /\ pc' = "ascent"
                      /\ it' = 1
                      /\ UNCHANGED err
                 ELSE /\ Raise("KeyError", r.f)
                      /\ UNCHANGED it
  /\ UNCHANGED <<opts, aerosol, spectra, nt, info, steps, RH_seen>>

\* parcel.py:385-435: one pass of: for it in range(1, nt+1)
AscentTick ==
  /\ pc = "ascent"
  /\ it <= nt
  /\ LET st1 == [state EXCEPT !.z = @ + opts.w * opts.dt, !.t = it * opts.dt]
     IN  IF opts.pprof \notin PprofNames
         THEN /\ Raise("pprof should be pprof_const_th_rv, pprof_const_rhod, or pprof_piecewise_const_rhod", fout)
              /\ state' = st1
              /\ calls' = <<>>
              /\ UNCHANGED <<info, steps, RH_seen, it, micro>>
         ELSE \E c \in CondChoices(opts, st1), rh \in RHValues :
                LET st2 == pprof_update(st1, opts)
                    res == micro_step(st2, info, c, rh)
                    ms  == micro_step_calls(st2, micro.sel, micro.chem_switch)
                    st3 == harvest_state(res.state, micro.chem_switch)
                    upd == <<Event("pprof_update", micro.sel, "")>>
                IN  /\ state' = st3
                    /\ info' = res.info
                    /\ steps' = Append(steps, it)
                    /\ RH_seen' = RH_seen \cup {rh}
                    /\ IF opts.outfreq = 0
                       THEN /\ Raise("ZeroDivisionError", fout)
                            /\ micro' = [micro EXCEPT !.sel = ms.sel]
                            /\ calls' = upd \o ms.calls
                            /\ UNCHANGED it
                       ELSE LET out == output_tick(fout, ms.sel, it, opts, spectra, st3)
                            IN  /\ micro' = [micro EXCEPT !.sel = out.sel]
                                /\ calls' = upd \o ms.calls \o out.calls
                                /\ IF out.ok
                                   THEN /\ fout' = out.f
                                        /\ it' = it + 1
                                        /\ UNCHANGED <<pc, err>>
                                   ELSE /\ Raise("KeyError", out.f)
                                        /\ UNCHANGED it
  /\ UNCHANGED <<opts, aerosol, spectra, nt>>

\* parcel.py:437-438: the attributes of the archive
SaveAttrs ==
  /\ pc = "ascent"
  /\ it > nt
  /\ fout' = save_attrs(fout, info)
  /\ pc' = "wait"
  /\ calls' = <<>>
  /\ UNCHANGED <<opts, aerosol, spectra, err, nt, it, state, info, micro, steps, RH_seen>>

\* the indices of: for it in range(nt+1, nt+wait)
wait_range(n, wait) == (n + 1)..(n + wait - 1)

\* fault: the height advanced in the ticks at zero vertical velocity
wait_state_rising(st, i, o) ==
  [st EXCEPT !.z = @ + o.w * o.dt, !.t = i * o.dt]

\* state["t"] = it * dt (parcel.py:442)
wait_state(st, i, o) == [st EXCEPT !.t = i * o.dt]

\* parcel.py:440-447: one pass of the loop at zero vertical velocity
WaitTick ==
  /\ pc = "wait"
  /\ opts.wait # 0
  /\ it \in wait_range(nt, opts.wait)
  /\ \E c \in CondChoices(opts, state), rh \in RHValues :
       LET st1 == wait_state(state, it, opts)
           res == micro_step(st1, info, c, rh)
           ms  == micro_step_calls(st1, micro.sel, micro.chem_switch)
           st3 == harvest_state(res.state, micro.chem_switch)
       IN  /\ state' = st3
           /\ info' = res.info
           /\ steps' = Append(steps, it)
           /\ RH_seen' = RH_seen \cup {rh}
           /\ IF opts.outfreq = 0
              THEN /\ Raise("ZeroDivisionError", fout)
                   /\ micro' = [micro EXCEPT !.sel = ms.sel]
                   /\ calls' = ms.calls
                   /\ UNCHANGED it
              ELSE LET out == output_tick(fout, ms.sel, it, opts, spectra, st3)
                   IN  /\ micro' = [micro EXCEPT !.sel = out.sel]
                       /\ calls' = ms.calls \o out.calls
                       /\ IF out.ok
                          THEN /\ fout' = out.f
                               /\ it' = it + 1
                               /\ UNCHANGED <<pc, err>>
                          ELSE /\ Raise("KeyError", out.f)
                               /\ UNCHANGED it
  /\ UNCHANGED <<opts, aerosol, spectra, nt>>

\* the end of the with-block and of parcel()
Finish ==
  /\ pc = "wait"
  /\ opts.wait = 0 \/ it \notin wait_range(nt, opts.wait)
  /\ fout' = close(fout)
  /\ pc' = "done"
  /\ calls' = <<>>
  /\ UNCHANGED <<opts, aerosol, spectra, err, nt, it, state, info, micro, steps, RH_seen>>

Next ==
  \/ Validate
  \/ Initialize
  \/ OutputInit
  \/ AscentTick
  \/ SaveAttrs
  \/ WaitTick
  \/ Finish

Spec == Init /\ [][Next]_vars

-----------------------------------------------------------------------------
(* The configurations of the argument checks: each of the three parts of   *)
(* the configuration (aerosol, out_bin, scalar options) ranges over its    *)
(* full set while the other two range over a few valid and invalid values. *)

SeqsUpTo(n, S) == UNION {[1..k -> S] : k \in 1..n}

Repeat(n, x) == [i \in 1..n |-> x]

AerosolDcts ==
  {[keys |-> ks, kappa |-> k, mean_r |-> m, gstdev |-> g, n_tot |-> n] :
     ks \in {Range(AerosolKeys), Range(AerosolKeys) \ {"gstdev"},
             Range(AerosolKeys) \cup {"extra"}},
     k \in {0, 61},
     m \in {List(Repeat(j, 20)) : j \in 1..MaxModes} \cup {List(<<0>>), NotList(<<20>>)},
     g \in {List(q) : q \in SeqsUpTo(MaxModes, {0, 10, 14})} \cup {NotList(<<14>>)},
     n \in {List(Repeat(j, 60)) : j \in 1..MaxModes} \cup {List(<<0>>)}}

AerosolDctsSmall ==
  {DefaultAerosolDct,
   [DefaultAerosolDct EXCEPT !.mean_r = List(<<7>>), !.gstdev = List(<<12>>),
                             !.n_tot = List(<<80>>)],
   [DefaultAerosolDct EXCEPT !.kappa = 128, !.mean_r = List(<<2000>>),
                             !.gstdev = List(<<16>>), !.n_tot = List(<<1>>)],
   [DefaultAerosolDct EXCEPT !.mean_r = List(<<20, 7>>), !.gstdev = List(<<14, 10>>),
                             !.n_tot = List(<<60, 80>>)],
   [DefaultAerosolDct EXCEPT !.keys = @ \ {"n_tot"}]}

Aerosols ==
  {<< <<"a", d>> >> : d \in AerosolDcts}
    \cup {<< <<"a", d1>>, <<"b", d2>> >> : d1 \in AerosolDctsSmall, d2 \in AerosolDctsSmall}

AerosolsSmall ==
  {DefaultAerosol,
   << <<"a", DefaultAerosolDct>>,
      <<"b", [DefaultAerosolDct EXCEPT !.gstdev = List(<<10>>)]>> >>,
   << <<"a", [DefaultAerosolDct EXCEPT !.keys = @ \cup {"extra"}]>> >>}

SpectrumDcts ==
  {[keys |-> ks, left |-> l, rght |-> r, nbin |-> nb, drwt |-> dw, lnli |-> ll,
    moms |-> ms] :
     ks \in {Range(SpectrumKeys), Range(SpectrumKeys) \ {"moms"},
             Range(SpectrumKeys) \cup {"extra"}},
     l \in {Num(1), Num(9), [num |-> FALSE, v |-> 1]},
     r \in {Num(1), Num(9), [num |-> FALSE, v |-> 9]},
     nb \in {[int |-> TRUE, v |-> 1], [int |-> FALSE, v |-> 1]},
     dw \in {"wet", "dry", "damp"},
     ll \in {"log", "lin", "sqrt"},
     ms \in {List(<<"0">>), List(<<"0", "3">>), List(<<"NH4_a">>), NotList(<<"0">>)}}

SpectrumDctsSmall ==
  {DefaultSpectrumDct,
   [DefaultSpectrumDct EXCEPT !.left = Num(9), !.rght = Num(1)],
   [DefaultSpectrumDct EXCEPT !.lnli = "lin", !.drwt = "dry"]}

Spectra ==
  {<< <<"radii", d>> >> : d \in SpectrumDcts}
    \cup {<< <<"radii", d1>>, <<"cloud", d2>> >> :
            d1 \in SpectrumDctsSmall, d2 \in SpectrumDctsSmall}

SpectraSmall ==
  {DefaultSpectra,
   << <<"radii", DefaultSpectrumDct>>,
      <<"cloud", [DefaultSpectrumDct EXCEPT !.left = Num(9)]>> >>,
   << <<"radii", [DefaultSpectrumDct EXCEPT !.drwt = "damp"]>> >>}

\* a run with ascent and wait ticks
ArgsBaseOpts == [DefaultOpts EXCEPT !.wait = 2]

ArgsOpts ==
  {[ArgsBaseOpts EXCEPT !.T_0 = T, !.r_0 = r, !.RH_0 = h, !.w = w] :
     T \in {273, 274, 300}, r \in {Unset, 0, 22}, h \in {Unset, 0, 1}, w \in {-1, 1}}

ArgsOptsSmall ==
  {ArgsBaseOpts, [ArgsBaseOpts EXCEPT !.T_0 = 273],
   [ArgsBaseOpts EXCEPT !.r_0 = 22, !.RH_0 = 1]}

InitArgs ==
  \/ \E o \in ArgsOptsSmall, a \in Aerosols, sp \in SpectraSmall : Start(o, a, sp)
  \/ \E o \in ArgsOptsSmall, a \in AerosolsSmall, sp \in Spectra : Start(o, a, sp)
  \/ \E o \in ArgsOpts, a \in AerosolsSmall, sp \in SpectraSmall : Start(o, a, sp)

SpecArgs == InitArgs /\ [][Next]_vars

-----------------------------------------------------------------------------
(* The configurations of the output spectra: spacing, number of bins,      *)
(* radius kind and moments.  The radii are such that the bin widths are    *)
(* exact in integers: rght is left plus a step per bin (lin), left times a *)
(* power of 3 per bin (log).  nbin = 0 passes the argument check.          *)

MaxBins == 2

BinSpectrumDct(ll, l, k, n, dw, ms) ==
  [DefaultSpectrumDct EXCEPT
     !.left = Num(l),
     !.rght = Num(IF ll = "lin" THEN l + k * Max(n, 1) ELSE l * Exp3(k * Max(n, 1))),
     !.nbin = [int |-> TRUE, v |-> n],
     !.drwt = dw, !.lnli = ll, !.moms = List(ms)]

\* spacing and edges
EdgeSpectrumDcts ==
  {BinSpectrumDct(ll, l, k, n, "wet", <<"0">>) :
     ll \in {"lin", "log"}, l \in {1, 3}, k \in {1, 2}, n \in 0..MaxBins}

\* radius kind and moments
KindSpectrumDcts(chem) ==
  {BinSpectrumDct("lin", 1, 2, n, dw, ms) :
     n \in 1..MaxBins, dw \in {"wet", "dry"},
     ms \in {<<"0", "3">>, <<>>} \cup (IF chem THEN {<<"3", "SO2_a", "H">>} ELSE {})}

BinSpectra(chem) ==
  {<< <<"radii", d>> >> : d \in EdgeSpectrumDcts \cup KindSpectrumDcts(chem)}
    \cup {<< <<"radii", d1>>, <<"radii_m0", d2>> >> :
            d1 \in {BinSpectrumDct("log", 1, 1, MaxBins, "wet", <<"0", "3">>),
                    BinSpectrumDct("lin", 3, 1, 1, "dry", <<"0">>)},
            d2 \in {BinSpectrumDct("lin", 1, 2, MaxBins, "dry", <<"3">>),
                    BinSpectrumDct("log", 3, 2, 1, "wet", <<"0">>)}}

\* one ascent tick and two ticks at zero velocity
BinOpts ==
  {[DefaultOpts EXCEPT !.z_max = 1, !.wait = 3, !.outfreq = f, !.chem_dsl = ch] :
     f \in {1, 2}, ch \in BOOLEAN}

\* every combination of the three chemistry switches
ChemOpts ==
  {[DefaultOpts EXCEPT !.z_max = 1, !.wait = 3, !.chem_dsl = dsl, !.chem_dsc = dsc,
                       !.chem_rct = rct] :
     dsl \in BOOLEAN, dsc \in BOOLEAN, rct \in BOOLEAN}

InitBins ==
  \/ \E o \in BinOpts : \E sp \in BinSpectra(chem_on(o)) : Start(o, DefaultAerosol, sp)
  \/ \E o \in ChemOpts : Start(o, DefaultAerosol, DefaultSpectra)

SpecBins == InitBins /\ [][Next]_vars

-----------------------------------------------------------------------------
(* Properties *)

\* floor(a / b) for a >= 0, b > 0, defined by its bracketing property
Floor(a, b) == CHOOSE n \in 0..a : n * b <= a /\ a < (n + 1) * b

UpTo(n) == [k \in 1..n |-> k]

\* the record indices 0..n in increasing order
Records(n) == [k \in 1..(n + 1) |-> k - 1]

MaxOf(S) == CHOOSE x \in S : \A y \in S : y <= x

\* C1: in a run with wait = 0 (and outfreq >= 1), once it - 1 ticks are done the
\* ticks executed are 1..it-1 in order and the records written are exactly
\* 0..floor((it-1)/outfreq), each once and in increasing order (record 0 before
\* the first tick, record it/outfreq at the ticks with it mod outfreq = 0); a
\* completed run has executed exactly floor(z_max/(w*dt)) ticks.
C1_TicksAndRecords ==
  (opts.wait = 0 /\ opts.outfreq >= 1 /\ pc \in {"ascent", "wait", "done"}) =>
     /\ steps = UpTo(it - 1)
     /\ fout.recs = Records(Floor(it - 1, opts.outfreq))
     /\ (pc = "done" =>
           /\ Len(steps) = Floor(opts.z_max, opts.w * opts.dt)
           /\ fout.recs = Records(Floor(Floor(opts.z_max, opts.w * opts.dt), opts.outfreq)))

C1_Witness ==
  /\ pc = "done" /\ opts.wait = 0 /\ opts.outfreq = 2 /\ opts.z_max = 3 /\ opts.w = 1
  /\ steps = <<1, 2, 3>>
  /\ fout.recs = <<0, 1>>

\* C2 (as claimed): a completed run with wait # 0 has executed, after the ascent
\* ticks 1..n_ascent, the holding ticks n_ascent+1 .. n_ascent+wait, one
\* microphysics step each.
C2_WaitTicks ==
  (pc = "done" /\ opts.wait # 0) => steps = UpTo(nt + opts.wait)

\* C3 (as claimed): once the archive attributes are persisted, no microphysics
\* step runs, info.RH_max does not change and no record is written.
C3_AttrsLast ==
  [][fout.attrs.saved =>
       /\ steps' = steps
       /\ info'.RH_max = info.RH_max
       /\ fout'.recs = fout.recs]_vars

\* C4: a configuration that _arguments_checking rejects ends the run in that
\* error with no engine created or initialized, no archive created and no
\* record written.
C4_RejectedNoSetup ==
  (arguments_checking(opts, spectra, aerosol) # "ok") =>
     /\ pc \in {"validate", "error"}
     /\ pc = "error" => err = arguments_checking(opts, spectra, aerosol)
     /\ ~micro.created /\ ~micro.inited
     /\ fout.status = "none" /\ fout.recs = <<>>
     /\ steps = <<>>

C4_Witness ==
  /\ pc = "error"
  /\ err = "lists should have same sizes"
  /\ ~micro.created /\ fout.status = "none"

\* C5 (as claimed): a run whose pprof is none of the three policy names ends
\* in an error, with no engine and no archive created.
C5_UnknownPprofRejected ==
  (opts.pprof \notin PprofNames) =>
     /\ pc # "done"
     /\ ~micro.created
     /\ fout.status = "none"

\* C6: RH > 1 at the _stats call of the initialization aborts the run with the
\* engine initialized, no archive and no record; the run gets past the
\* initialization only with RH <= 1; RH > 1 at a tick aborts nothing (after a
\* tick a run errs only for outfreq = 0) and is tracked by info.RH_max.
C6_InitialSupersaturation ==
  /\ (pc = "output_init" => state.RH <= 1)
  /\ (err = "Please supply initial T,p,r_v below supersaturation" =>
        /\ pc = "error" /\ micro.inited /\ state.RH > 1
        /\ fout.status = "none" /\ fout.recs = <<>> /\ steps = <<>>)
  /\ (pc = "error" /\ micro.inited /\ steps = <<>> /\ state.RH > 1 =>
        err = "Please supply initial T,p,r_v below supersaturation")
  /\ (steps # <<>> /\ opts.outfreq # 0 => pc # "error")
  /\ (steps # <<>> /\ state.RH > 1 => info.RH_max >= state.RH)

C6_Witness ==
  /\ pc = "error"
  /\ err = "Please supply initial T,p,r_v below supersaturation"
  /\ micro.inited /\ state.RH > 1 /\ fout.status = "none"

\* C7: info.RH_max never decreases, and after every _stats call it is the
\* maximum of 0 and the RH values computed so far, so it is >= state.RH.
C7_RHmaxRunningMax ==
  /\ [](/\ info.RH_max = MaxOf(RH_seen \cup {0})
        /\ (state.RH # None => info.RH_max >= state.RH))
  /\ [][info'.RH_max >= info.RH_max]_vars

C7_Witness ==
  /\ Len(steps) >= 2
  /\ state.RH < info.RH_max
  /\ info.RH_max = 2

\* the kappas of the aerosol entries
Kappas(aero) == {aero[i][2].kappa : i \in DOMAIN aero}

Components(aero) == UNION {Range(lognormals_of(aero[i][2])) : i \in DOMAIN aero}

RECURSIVE CountAll(_, _, _, _)
\* how many times component c occurs among the entries i.. of kappa k
CountAll(aero, k, c, i) ==
  IF i > Len(aero) THEN 0
  ELSE (IF aero[i][2].kappa = k THEN Count(lognormals_of(aero[i][2]), c) ELSE 0)
         + CountAll(aero, k, c, i + 1)

\* C8 (as claimed): the distribution handed to the engine for kappa k sums the
\* lognormal components of all aerosol entries whose kappa is k.
C8_AllEntriesSummed ==
  micro.created =>
    \A k \in Kappas(aerosol) :
      /\ k \in DOMAIN micro.dry_distros
      /\ \A c \in Components(aerosol) :
           Count(micro.dry_distros[k], c) = CountAll(aerosol, k, c, 1)

\* the configurations C9 is about
C9_Bad ==
  \/ \E i \in DOMAIN aerosol :
       LET dct == aerosol[i][2]
       IN  /\ "gstdev" \in dct.keys /\ dct.gstdev.list
           /\ \E j \in DOMAIN dct.gstdev.v : dct.gstdev.v[j] = 10
  \/ \E i \in DOMAIN spectra :
       LET dct == spectra[i][2]
       IN  /\ {"left", "rght"} \subseteq dct.keys /\ dct.left.num /\ dct.rght.num
           /\ dct.left.v >= dct.rght.v
  \/ opts.r_0 >= 0 /\ opts.RH_0 >= 0
  \/ opts.T_0 * 100 < 27315

\* C9: a configuration with a gstdev = 1 at some list index, a spectrum with
\* left >= rght, both r_0 >= 0 and RH_0 >= 0, or T_0 < 273.15 is rejected by
\* _arguments_checking whatever the other fields are: the run goes from the
\* check to the error.
C9_BadRejected ==
  C9_Bad =>
    /\ arguments_checking(opts, spectra, aerosol) # "ok"
    /\ pc \in {"validate", "error"}
    /\ pc = "error" => err # "" /\ ~micro.created

C9_Witness ==
  /\ pc = "error"
  /\ err = "gstdev should be != 1"
  /\ aerosol[1][2].gstdev.v = <<14, 10>>

\* the ascent ticks whose microphysics step has run
AscentTicksDone == Cardinality({i \in DOMAIN steps : steps[i] <= nt})

\* C10: under pprof_const_rhod the pressure after k ascent ticks is
\* p_0 - rho * g * (k * w * dt), with the fixed rho = 1.13 at every tick,
\* whatever state.rhod has become.
C10_ConstRhodPressure ==
  (opts.pprof = "pprof_const_rhod" /\ AscentTicksDone >= 1) =>
     state.p = opts.p_0 - rho * common_g * (AscentTicksDone * opts.w * opts.dt)

C10_Witness ==
  /\ opts.pprof = "pprof_const_rhod"
  /\ AscentTicksDone = 3
  /\ opts.w = 1
  /\ state.rhod # common_rhod(opts.p_0, th_0(opts), r_0(opts))
  /\ state.p = 1013000000 - 3 * 110853

-----------------------------------------------------------------------------
(* The calls of a stage *)

\* the positions in the log of the calls named op
At(op) == {i \in DOMAIN calls : calls[i].op = op}

\* the stage just executed was a tick that reached the microphysics step
Ticked == At("step_sync") # {}

\* the last tick was one of the ticks at zero vertical velocity
Holding == steps # <<>> /\ steps[Len(steps)] > nt

\* rhod follows from p, or p follows from rhod, for the given th_d and r_v
Consistent(a) ==
  \/ a.rhod = common_rhod(a.p, common_th_dry2std(a.th_d, a.r_v), a.r_v)
  \/ a.p = common_p(a.rhod, a.r_v, common_T(a.th_d, a.rhod))

\* C11: whenever the microphysics step is invoked, in the ascent and in the
\* ticks at zero velocity, the pressure and the dry air density handed to it
\* satisfy the moist-air relation for the th_d and r_v handed to it.
C11_StepSeesConsistentState ==
  \A i \in At("step_sync") : Consistent(calls[i].arg)


-----------------------------------------------------------------------------
(* The spectral output *)

SelOps == {"diag_all", "diag_wet_rng", "diag_dry_rng"}

RngOps == {"diag_wet_rng", "diag_dry_rng"}

QueryOps == {"diag_wet_mom", "diag_dry_mom", "diag_chem"}

\* the position of the last selection call before position k, 0 if none
LastSel(k) ==
  LET before == {j \in 1..(k - 1) : calls[j].op \in SelOps}
  IN  IF before = {} THEN 0 ELSE MaxOf(before)

\* the configuration of the spectrum called name
SpectrumOf(name) ==
  spectra[CHOOSE i \in DOMAIN spectra : spectra[i][1] = name][2]

\* the range of bin b of the spectrum called name, from the persisted edges
PersistedRange(name, b) ==
  LET dct == SpectrumOf(name)
      lo  == fout.variables[r_name(name, dct)].data[<<b>>].num
  IN  RngSel(dct.drwt, lo, lo + fout.variables[dr_name(name, dct)].data[<<b>>].num)

\* the query that yields moment vm of a spectrum of the given kind
QueryOf(dct, vm) ==
  [op  |-> IF vm \in Chem_a_id THEN "diag_chem"
           ELSE IF dct.drwt = "wet" THEN "diag_wet_mom" ELSE "diag_dry_mom",
   arg |-> vm]

\* the write at position k follows its query, and the last selection before
\* both is the range of the written bin of the written spectrum
WriteSelected(k) ==
  LET j == LastSel(k)
  IN  /\ j > 0
      /\ j < k - 1
      /\ calls[j].op \in RngOps
      /\ LET name == calls[j].arg.name
             dct  == SpectrumOf(name)
         IN  /\ calls[j].arg.bin = calls[k].arg.bin
             /\ calls[j].op = (IF dct.drwt = "wet" THEN "diag_wet_rng" ELSE "diag_dry_rng")
             /\ calls[j].sel = PersistedRange(name, calls[k].arg.bin)
             /\ calls[k - 1].op \in QueryOps
             /\ calls[k - 1].sel = calls[j].sel
             /\ \E m \in DOMAIN dct.moms.v :
                  /\ calls[k].arg.var = mom_name(name, dct.moms.v[m])
                  /\ calls[k - 1].op = QueryOf(dct, dct.moms.v[m]).op
                  /\ calls[k - 1].arg = dct.moms.v[m]

\* the range selections of one pass over a spectrum are bins 0, 1, ... in turn
BinsAscending ==
  \A j \in DOMAIN calls :
    calls[j].op \in RngOps =>
      LET prev == {h \in 1..(j - 1) : calls[h].op \in RngOps}
      IN  IF calls[j].arg.bin = 0
          THEN prev = {} \/ calls[MaxOf(prev)].arg.name # calls[j].arg.name
                         \/ calls[MaxOf(prev)].arg.bin =
                              SpectrumOf(calls[j].arg.name).nbin.v - 1
          ELSE /\ prev # {}
               /\ calls[MaxOf(prev)].arg.name = calls[j].arg.name
               /\ calls[MaxOf(prev)].arg.bin = calls[j].arg.bin - 1

\* every value held by a series of a spectrum was read under the range of
\* its bin by the query of its moment
SeriesSelected ==
  \A i \in DOMAIN spectra :
    LET name == spectra[i][1]
        dct  == spectra[i][2]
    IN  \A m \in DOMAIN dct.moms.v :
          LET data == fout.variables[mom_name(name, dct.moms.v[m])].data
          IN  \A ix \in DOMAIN data :
                /\ data[ix].sel = PersistedRange(name, ix[2])
                /\ data[ix].q = QueryOf(dct, dct.moms.v[m])

\* C12: every value written to a series of a spectrum at (rec, bin) comes from
\* a moment or chemical query issued while the engine's most recent selection
\* is the radius range of that bin of that spectrum, [left edge, left edge +
\* width) of the spectrum's kind, with no other selection in between; the
\* bins are taken in ascending order.
C12_WritesUnderOwnRange ==
  /\ \A k \in At("write") : WriteSelected(k)
  /\ BinsAscending
  /\ fout.status \in {"open", "closed"} => SeriesSelected

\* a value of bin 1 of a dry spectrum is written at a record of a tick
C12_Witness ==
  \E k \in At("write") :
    /\ calls[k].arg.bin = 1
    /\ calls[k].arg.rec >= 1
    /\ calls[k].sel.drwt = "dry"
    /\ calls[k].sel.hi > calls[k].sel.lo


\* edge i of the spectrum called name as persisted: the left edge of bin i,
\* and for i = nbin the left edge of the last bin plus its width
PersistedEdge(name, i) ==
  LET dct == SpectrumOf(name)
      r   == fout.variables[r_name(name, dct)].data
      dr  == fout.variables[dr_name(name, dct)].data
  IN  IF i < dct.nbin.v THEN r[<<i>>].num
      ELSE r[<<i - 1>>].num + dr[<<i - 1>>].num

Tiles(name) ==
  LET dct == SpectrumOf(name)
      n   == dct.nbin.v
      r   == fout.variables[r_name(name, dct)].data
      dr  == fout.variables[dr_name(name, dct)].data
  IN  /\ DOMAIN r = {<<b>> : b \in 0..(n - 1)}
      /\ DOMAIN dr = DOMAIN r
      /\ r[<<0>>].num = dct.left.v
      /\ \A b \in 0..(n - 2) : r[<<b>>].num + dr[<<b>>].num = r[<<b + 1>>].num
      /\ r[<<n - 1>>].num + dr[<<n - 1>>].num = dct.rght.v
      /\ \A b \in 0..(n - 1) : dr[<<b>>].num > 0
      /\ dct.lnli = "lin" =>
           \A b \in 0..(n - 1) : dr[<<b>>].num * n = dct.rght.v - dct.left.v
      /\ dct.lnli = "log" =>
           \A b \in 0..(n - 2) :
             PersistedEdge(name, b + 1) * PersistedEdge(name, b + 1)
               = PersistedEdge(name, b) * PersistedEdge(name, b + 2)

\* C13: for a valid spectrum with nbin >= 1 the persisted bins tile
\* [left, rght): the first left edge is left, each left edge plus its width
\* is the next left edge, the last one plus its width is rght; the widths of
\* a linear spectrum are all (rght - left) / nbin, the ratio of consecutive
\* edges of a logarithmic spectrum is constant.
C13_BinsTile ==
  fout.status \in {"open", "closed"} =>
    \A i \in DOMAIN spectra : Tiles(spectra[i][1])

\* an archive holding a logarithmic spectrum of two or more bins that does
\* not start at radius 1
C13_Witness ==
  /\ fout.status = "open"
  /\ \E i \in DOMAIN spectra :
       /\ spectra[i][2].lnli = "log"
       /\ spectra[i][2].nbin.v >= 2
       /\ PersistedEdge(spectra[i][1], 0) > 1
       /\ PersistedEdge(spectra[i][1], 2) > PersistedEdge(spectra[i][1], 1)


-----------------------------------------------------------------------------
(* The order of the operations of a tick *)

Ops == [i \in DOMAIN calls |-> calls[i].op]

OutputOps == RngOps \cup QueryOps \cup {"write", "output_save"}

\* the calls of the harvest of the aqueous masses start at position k
HarvestAt(k) ==
  /\ Len(calls) >= k + 2 * Len(Chem_g_order)
  /\ Ops[k] = "diag_all"
  /\ \A g \in DOMAIN Chem_g_order :
       /\ Ops[k + 2 * g - 1] = "diag_chem"
       /\ Ops[k + 2 * g] = "store"

\* the calls from position k on are those of one _output, or there are none
OutputFrom(k) ==
  /\ \A j \in k..Len(calls) : Ops[j] \in OutputOps
  /\ Cardinality(At("output_save")) <= 1
  /\ Len(calls) >= k => Ops[Len(calls)] = "output_save"

\* the calls of the tick are: those of first, step_sync, step_async, _stats,
\* the harvest if chemistry is on, the output if any
TickOrder(first) ==
  LET n == Len(first)
      h == IF chem_on(opts) THEN 1 + 2 * Len(Chem_g_order) ELSE 0
  IN  /\ Len(calls) >= n + 3
      /\ SubSeq(Ops, 1, n + 3) = first \o <<"step_sync", "step_async", "stats">>
      /\ \A op \in {"pprof_update", "step_sync", "step_async", "stats", "diag_all"} :
           Cardinality(At(op)) <= 1
      /\ chem_on(opts) => HarvestAt(n + 4)
      /\ OutputFrom(n + 4 + h)

\* C14: in every tick the operations occur in this order, each once: the
\* pressure and density update, step_sync, step_async, _stats, the harvest of
\* the aqueous masses (with chemistry only), the output at the cadence; no
\* diagnostic call lies between step_sync and step_async and _stats is never
\* skipped.
C14_TickOrder == Ticked => TickOrder(<<"pprof_update">>)


-----------------------------------------------------------------------------
(* The piecewise constant density profile *)

\* the step is an ascent tick that reaches the microphysics step
AscentStep == pc = "ascent" /\ it <= nt /\ steps' # steps

\* the thermodynamic fields handed to step_sync in the step
Synced == calls'[CHOOSE i \in DOMAIN calls' : calls'[i].op = "step_sync"].arg

\* C15: under pprof_piecewise_const_rhod every ascent tick lowers the pressure
\* by rhod * g * (w * dt) with rhod the density the state holds when the tick
\* starts, and the density is derived from the new pressure before the
\* microphysics step.
C15_PiecewisePressure ==
  [][(AscentStep /\ opts.pprof = "pprof_piecewise_const_rhod") =>
       /\ Synced.p = state.p - state.rhod * common_g * (opts.w * opts.dt)
       /\ Synced.rhod = common_rhod(Synced.p,
                                    common_th_dry2std(state.th_d, state.r_v),
                                    state.r_v)
       /\ Ops'[1] = "pprof_update" /\ Ops'[2] = "step_sync"
       /\ state'.p = Synced.p
       /\ state'.rhod = Synced.rhod]_vars

\* the second of the ascent ticks of a run under the piecewise profile has
\* been taken, after condensation in the first, and the pressure is not the
\* one a fixed density gives
C15_Witness ==
  /\ opts.pprof = "pprof_piecewise_const_rhod"
  /\ opts.w = 1
  /\ pc = "ascent"
  /\ Len(steps) = 2
  /\ Ticked
  /\ state.r_v < r_0(opts)
  /\ state.p # opts.p_0 - 2 * (opts.w * opts.dt) * common_g * rho


-----------------------------------------------------------------------------
(* The ticks at zero vertical velocity *)

\* the step is a tick of the loop at zero velocity
WaitStep == pc = "wait" /\ steps' # steps

\* C16: in every tick at zero velocity z keeps the value it had at the end of
\* the ascent and t is set to it * dt; the record indices of those ticks
\* continue those of the ascent: over the whole run they are written in
\* strictly increasing order, none twice.
C16_HoldingKeepsHeight ==
  /\ [](Holding => /\ state.z = nt * opts.w * opts.dt
                   /\ state.t = steps[Len(steps)] * opts.dt)
  /\ [](\A i \in DOMAIN fout.recs : fout.recs[i] = i - 1)
  /\ [][WaitStep => /\ state'.z = state.z
                    /\ state'.t = it * opts.dt
                    /\ \A i \in DOMAIN fout'.recs : \A j \in DOMAIN fout'.recs :
                         i < j => fout'.recs[i] < fout'.recs[j]]_vars

\* a record is written in the second tick at zero velocity, after an ascent
\* of two ticks
C16_Witness ==
  /\ Holding
  /\ nt = 2
  /\ state.z > 0
  /\ steps[Len(steps)] = nt + 2
  /\ At("output_save") # {}
  /\ Len(fout.recs) >= 3


-----------------------------------------------------------------------------
(* The harvest of the aqueous masses *)

\* the store at position k keeps the result of a chemical query of its own
\* species, made right before it under the selection of all particles that
\* is the last selection call, and after the engine's asynchronous phase
StoreSelected(k) ==
  LET j == LastSel(k)
  IN  /\ k > 1
      /\ calls[k - 1].op = "diag_chem"
      /\ calls[k - 1].sel = AllSel
      /\ \/ calls[k - 1].arg = calls[k].arg
         \/ /\ calls[k - 1].arg \in Chem_g_id
            /\ replace_g_a(calls[k - 1].arg) = calls[k].arg
      /\ j > 0
      /\ calls[j].op = "diag_all"
      /\ \A a \in At("step_async") : a < j

\* C17: with chemistry enabled every aqueous mass stored into the state, the
\* one read at initialization and those read after each microphysics step,
\* comes from a chemical query issued while the engine's most recent
\* selection is that of all particles, never a radius range left by an
\* earlier output, and after the asynchronous phase of that tick.
C17_HarvestSelectsAll ==
  /\ \A k \in At("store") : StoreSelected(k)
  /\ (Ticked /\ chem_on(opts)) =>
       \A g \in DOMAIN Chem_g_order :
         \E k \in At("store") : calls[k].arg = replace_g_a(Chem_g_order[g])
  /\ (~chem_on(opts)) => At("store") = {}

\* the masses are stored in a tick that began with the radius range of the
\* previous output still selected
C17_Witness ==
  /\ chem_on(opts)
  /\ Ticked
  /\ At("store") # {}
  /\ \E i \in At("step_sync") : calls[i].sel.kind = "rng"


-----------------------------------------------------------------------------
(* The independence of the spectra in the archive *)

\* the names of the edge variables of the i-th spectrum
EdgeNames(i) ==
  {r_name(spectra[i][1], spectra[i][2]), dr_name(spectra[i][1], spectra[i][2])}

\* the names of the series of the i-th spectrum
SeriesNames(i) ==
  {mom_name(spectra[i][1], spectra[i][2].moms.v[m]) :
     m \in DOMAIN spectra[i][2].moms.v}

\* the names of the series of the fields of the state
StateNames == Range(units(chem_on(opts)))

\* the variables of different spectra, and those of the state, are different
NamesApart ==
  /\ \A i \in DOMAIN spectra :
       /\ EdgeNames(i) \cap SeriesNames(i) = {}
       /\ (EdgeNames(i) \cup SeriesNames(i)) \cap StateNames = {}
  /\ \A i \in DOMAIN spectra : \A j \in DOMAIN spectra :
       i # j => (EdgeNames(i) \cup SeriesNames(i))
                  \cap (EdgeNames(j) \cup SeriesNames(j)) = {}

\* the step writes variable n at index ix
WrittenInStep(n, ix) ==
  \E k \in DOMAIN calls' :
    /\ calls'[k].op = "write"
    /\ calls'[k].arg.var = n
    /\ ix = <<calls'[k].arg.rec, calls'[k].arg.bin>>

\* C18: once the archive is created no output modifies the left-edge or the
\* width variable of any spectrum, and writing the series of one spectrum
\* changes nothing of another spectrum (its variables bear other names and a
\* write changes one value of one variable); so the range selected for a bin
\* of a spectrum is the same at every record.
C18_EdgesAndSpectraApart ==
  /\ [](fout.status = "open" =>
          /\ NamesApart
          /\ \A i \in DOMAIN spectra :
               /\ fout.variables[r_name(spectra[i][1], spectra[i][2])].data
                    = edges_r(spectra[i][2])
               /\ fout.variables[dr_name(spectra[i][1], spectra[i][2])].data
                    = edges_dr(spectra[i][2])
          /\ \A j \in DOMAIN calls :
               calls[j].op \in RngOps =>
                 calls[j].sel = PersistedRange(calls[j].arg.name, calls[j].arg.bin))
  /\ [][fout.status = "open" =>
          /\ DOMAIN fout'.variables = DOMAIN fout.variables
          /\ \A i \in DOMAIN spectra : \A n \in EdgeNames(i) :
               fout'.variables[n] = fout.variables[n]
          /\ \A n \in DOMAIN fout.variables :
               /\ fout'.variables[n].dims = fout.variables[n].dims
               /\ \A ix \in DOMAIN fout.variables[n].data :
                    \/ WrittenInStep(n, ix)
                    \/ fout'.variables[n].data[ix] = fout.variables[n].data[ix]]_vars

\* two spectra of two bins each have been written at a record after record 0
C18_Witness ==
  /\ fout.status = "open"
  /\ Len(spectra) = 2
  /\ \A i \in DOMAIN spectra :
       \E k \in At("write") :
         /\ calls[k].arg.var \in SeriesNames(i)
         /\ calls[k].arg.rec >= 1
         /\ calls[k].arg.bin = 1


-----------------------------------------------------------------------------
(* The order of the argument checks *)

\* the constraints on the scalar options, each with whether it is violated
RunChecks(o) ==
  <<<<o.T_0 * 100 < 27315, "temperature should be larger than 0C">>,
    <<o.r_0 >= 0 /\ o.RH_0 >= 0, "both r_0 and RH_0 specified">>,
    <<o.w < 0, "vertical velocity should be larger than 0">>>>

Has(dct, ks) == ks \subseteq dct.keys

\* the constraints on one aerosol entry; a constraint on a value applies
\* when the value is present and of the type the constraint is about
AerosolChecks(dct) ==
  <<<<~Has(dct, Range(AerosolKeys)), "aerosol key missing">>,
    <<~(dct.keys \subseteq Range(AerosolKeys)), "aerosol invalid key">>,
    <<Has(dct, {"kappa"}) /\ dct.kappa <= 0, "kappa should be > 0">>,
    <<Has(dct, {"mean_r"}) /\ ~dct.mean_r.list, "mean_r must be a list">>,
    <<Has(dct, {"gstdev"}) /\ ~dct.gstdev.list, "gstdev must be a list">>,
    <<Has(dct, {"n_tot"}) /\ ~dct.n_tot.list, "n_tot must be a list">>,
    <<Has(dct, {"mean_r", "gstdev", "n_tot"})
        /\ dct.mean_r.list /\ dct.gstdev.list /\ dct.n_tot.list
        /\ ~(Len(dct.mean_r.v) = Len(dct.n_tot.v) /\ Len(dct.n_tot.v) = Len(dct.gstdev.v)),
      "lists should have same sizes">>,
    <<Has(dct, {"mean_r"}) /\ dct.mean_r.list
        /\ \E j \in DOMAIN dct.mean_r.v : dct.mean_r.v[j] <= 0,
      "mean_r should be > 0">>,
    <<Has(dct, {"n_tot"}) /\ dct.n_tot.list
        /\ \E j \in DOMAIN dct.n_tot.v : dct.n_tot.v[j] <= 0,
      "n_tot should be > 0">>>>
  \o [j \in DOMAIN dct.gstdev.v |->
        <<Has(dct, {"gstdev"}) /\ dct.gstdev.list /\ dct.gstdev.v[j] \in {0, 10},
          IF dct.gstdev.v[j] <= 0 THEN "gstdev should be > 0"
          ELSE "gstdev should be != 1">>]

\* the constraints on one output spectrum
SpectrumChecks(dct) ==
  <<<<~Has(dct, Range(SpectrumKeys)), "out_bin key missing">>,
    <<~(dct.keys \subseteq Range(SpectrumKeys)), "out_bin invalid key">>,
    <<Has(dct, {"left"}) /\ ~dct.left.num, "left must be int or float">>,
    <<Has(dct, {"rght"}) /\ ~dct.rght.num, "rght must be int or float">>,
    <<Has(dct, {"left", "rght"}) /\ dct.left.num /\ dct.rght.num
        /\ dct.left.v >= dct.rght.v,
      "left is greater than rght">>,
    <<Has(dct, {"drwt"}) /\ dct.drwt \notin {"dry", "wet"}, "drwt must be dry or wet">>,
    <<Has(dct, {"lnli"}) /\ dct.lnli \notin {"lin", "log"}, "lnli must be lin or log">>,
    <<Has(dct, {"nbin"}) /\ ~dct.nbin.int, "nbin must be an integer">>,
    <<Has(dct, {"moms"}) /\ ~dct.moms.list, "moms must be a list">>,
    <<Has(dct, {"moms"}) /\ dct.moms.list
        /\ \E j \in DOMAIN dct.moms.v :
             dct.moms.v[j] \notin IntMoms \cup Chem_a_id,
      "moms must be integers or chemical compounds">>>>

\* a violated constraint: its part of the configuration (1 scalar options,
\* 2 aerosol, 3 spectra), its entry, its position among the constraints
Violation(sec, ent, checks) ==
  {[sec |-> sec, ent |-> ent, chk |-> c, msg |-> checks[c][2]] :
     c \in {c \in DOMAIN checks : checks[c][1]}}

Violations ==
  Violation(1, 0, RunChecks(opts))
    \cup UNION {Violation(2, i, AerosolChecks(aerosol[i][2])) : i \in DOMAIN aerosol}
    \cup UNION {Violation(3, i, SpectrumChecks(spectra[i][2])) : i \in DOMAIN spectra}

\* the stage of a violated constraint in the order: keys, numeric ranges,
\* list lengths, spectrum checks, checks of the scalar options
StatedStage(v) ==
  IF v.sec = 1 THEN 5
  ELSE IF v.chk <= 2 THEN 1
  ELSE IF v.sec = 3 THEN 4
  ELSE IF v.chk = 7 THEN 3
  ELSE 2

\* v comes before u in _arguments_checking: scalar options, then the aerosol
\* entries in turn, then the spectra in turn, each by its own constraints
Before(v, u) ==
  \/ v.sec < u.sec
  \/ v.sec = u.sec /\ v.ent < u.ent
  \/ v.sec = u.sec /\ v.ent = u.ent /\ v.chk <= u.chk

\* C19 as stated: the failure reported is one of the earliest violated stage
\* in the order: required/extraneous keys, numeric ranges, list-length
\* consistency, spectrum checks, run-level checks.
C19_StatedOrder ==
  [][(pc = "validate" /\ err' # "") =>
       \E v \in Violations :
         /\ v.msg = err'
         /\ \A u \in Violations : StatedStage(v) <= StatedStage(u)]_vars

\* C19 as the code has it: the failure reported is the first violated
\* constraint in the order: T_0, r_0/RH_0, w; then for each aerosol entry in
\* turn keys, kappa, list types, list lengths, mean_r, n_tot, gstdev element
\* by element; then for each spectrum in turn keys, types of left and rght,
\* left < rght, radius kind, spacing, type of nbin, moments.  A configuration
\* without violated constraint is accepted.
C19_CodeOrder ==
  [][pc = "validate" =>
       IF Violations = {}
       THEN err' = "" /\ pc' = "init"
       ELSE /\ pc' = "error"
            /\ \E v \in Violations :
                 /\ v.msg = err'
                 /\ \A u \in Violations : Before(v, u)]_vars

\* a configuration that violates a constraint on the scalar options and one
\* on the keys of the aerosol has been rejected
C19_Witness ==
  /\ pc = "error"
  /\ ~micro.created
  /\ \E v \in Violations : v.sec = 1
  /\ \E v \in Violations : v.sec = 2 /\ v.chk <= 2
  /\ \E v \in Violations : v.sec = 2 /\ v.chk = 7
  /\ \E v \in Violations : v.sec = 2 /\ v.chk > 7


-----------------------------------------------------------------------------
(* The accepted configurations *)

\* C20: a configuration that passes the argument check reaches the first tick
\* unless the initial state is supersaturated: the number of ticks and the
\* bin edges are defined for it, also for w = 0 and nbin = 0, and it does not
\* fail after the check with the engine initialized or the archive created.
C20_AcceptedReachesFirstTick ==
  (pc = "error" /\ it = 0 /\ Violations = {}) =>
    /\ err = "Please supply initial T,p,r_v below supersaturation"
    /\ fout.status = "none"


-----------------------------------------------------------------------------
(* The fields of the state and the series of the archive *)

\* the series declared over the time dimension alone
ScalarSeries ==
  {n \in DOMAIN fout.variables : fout.variables[n].dims = <<"t">>}

\* the names of the chemical tracers, gas and aqueous
ChemNames == Chem_g_id \cup Chem_aq_names

\* C21: at every record write, record 0 and the records of the ascent and of
\* the ticks at zero velocity, with chemistry on or off, the fields of the
\* state are exactly the scalar series declared when the archive was created,
\* so that no snapshot writes to an undeclared series; the chemical tracer
\* fields and series are present if and only if one of chem_dsl, chem_dsc,
\* chem_rct is set.
C21_StateFieldsDeclared ==
  /\ err # "KeyError"
  /\ \A k \in At("output_save") :
       /\ calls[k].arg.keys = ScalarSeries
       /\ IF chem_on(opts)
          THEN ChemNames \subseteq calls[k].arg.keys
          ELSE ChemNames \cap calls[k].arg.keys = {}
       /\ \A n \in calls[k].arg.keys :
            <<calls[k].arg.rec>> \in DOMAIN fout.variables[n].data
  /\ fout.status \in {"open", "closed"} =>
       /\ chem_on(opts) <=> ScalarSeries \cap ChemNames # {}
       /\ \A n \in ScalarSeries :
            DOMAIN fout.variables[n].data = {<<r>> : r \in Range(fout.recs)}

\* with chem_rct alone set, a record is written in a tick at zero velocity
C21_Witness ==
  /\ opts.chem_rct /\ ~opts.chem_dsl /\ ~opts.chem_dsc
  /\ Holding
  /\ At("output_save") # {}
  /\ "NH3_a" \in DOMAIN state
  /\ Len(fout.recs) >= 3


=============================================================================
